---- MODULE Spec2Model ----
(***************************************************************************)
(* A model of the Document QA API of src/backend/main.py and of the        *)
(* helpers of src/backend/llm.py it calls.                                 *)
(*                                                                         *)
(* The three module-level dictionaries of main.py are the state.  Every    *)
(* handler is an `async def` run on one event loop: a handler runs without *)
(* interruption except at an `await`.  Only upload_file and                *)
(* add_context_file contain one (`await file.read()`), so each of them is  *)
(* two actions (up to the await, and from the await to the response) and   *)
(* every other handler is one action.                                      *)
(*                                                                         *)
(* The external services (PDF / web / vision loaders, the embedding model  *)
(* behind FAISS, the LLM, the grounded web search) are nondeterministic:   *)
(* each call either raises or returns one of a small set of values.        *)
(*                                                                         *)
(* Strings that the code inspects are sequences of words; `x in s` and     *)
(* s.startswith(x) are decided at word granularity.                        *)
(***************************************************************************)
EXTENDS Integers, Sequences, FiniteSets, TLC

(***************************************************************************)
(* Bounds of the model.                                                    *)
(***************************************************************************)
\* number of uuid4 session ids that upload handlers may generate
MaxSessions == 2
\* longest document list a session may accumulate
MaxDocs == 2
\* most documents one load of a pdf or url returns
MaxLoad == 2
\* number of requests that may be suspended at `await file.read()` at once
MaxInflight == 2
\* number of session ids generated when the file endpoints are explored
MaxFileSessions == 1
\* handlers suspended at once when every endpoint is explored together
MaxAllInflight == 1

(***************************************************************************)
(* Program constants.                                                      *)
(***************************************************************************)
\* generate_summary: content shorter than this is returned verbatim
SummaryThreshold == 100
\* generate_summary: combined_text[:2000]
PromptCut == 2000
\* generate_preview: combined_text.strip()[:300]
PreviewCut == 300
\* the length of the "\n\n" that follows every document in combined_text
SepLen == 2

ALLOWED_EXTENSIONS == {"pdf", "png", "jpg", "jpeg", "gif", "bmp", "tiff"}

(***************************************************************************)
(* Values.                                                                 *)
(***************************************************************************)
\* session ids: 1..MaxSessions are the uuid4 strings in the order they are
\* generated; EmptySid is the empty string
EmptySid == 0
SessionIds == 1..MaxSessions
SidInputs == 0..MaxSessions
Slots == 1..MaxInflight

\* a Document: the length of page_content and whether it is only whitespace
\* (a document that is not blank has no leading or trailing whitespace)
BlankDoc == [len |-> 3, blank |-> TRUE]
ShortDoc == [len |-> 60, blank |-> FALSE]
DocPool == {BlankDoc, ShortDoc}

\* request texts: NoText is the absent or empty field (falsy in Python)
NoText == ""
\* the (url, text) pairs of a request body
ContentInputs ==
    { <<NoText, NoText>>, <<"u", NoText>>, <<"u", "short">>,
      <<NoText, "blank">>, <<NoText, "short">> }
\* the bodies tried when the JSON endpoints run beside the file endpoints
FewContentInputs == { <<NoText, NoText>>, <<NoText, "blank">>, <<NoText, "short">> }
QuestionInputs == {NoText, "q"}

\* file names as the list of their dot-separated parts; <<"">> is the empty name
EmptyName == <<"">>
FileNames ==
    { EmptyName, <<"notes">>, <<"a", "PDF">>, <<"b", "png">>, <<"a", "exe">>,
      <<"a", "pdf", "">>, <<"a", "pdf", "Exe">> }
\* the names tried when every endpoint is explored together
FewFileNames == { <<"b", "png">>, <<"a", "exe">> }

Min(a, b) == IF a < b THEN a ELSE b

\* the words of the not-found phrases in capitals, each with its lower case
CasePairs ==
    { <<"DOES", "does">>, <<"NOT", "not">>, <<"PROVIDE", "provide">>,
      <<"GIVE", "give">>, <<"CONTAIN", "contain">>, <<"MENTION", "mention">>,
      <<"FOUND", "found">>, <<"IN", "in">>, <<"NO", "no">>,
      <<"INFORMATION", "information">>, <<"CANNOT", "cannot">>,
      <<"FIND", "find">>, <<"DOESN'T", "doesn't">>, <<"BE", "be">>,
      <<"ANSWERED", "answered">>, <<"AVAILABLE", "available">>,
      <<"PROVIDED", "provided">>, <<"FROM", "from">>, <<"THE", "the">>,
      <<"GIVEN", "given">>, <<"CONTEXT", "context">>, <<"TEXT", "text">>,
      <<"INSUFFICIENT", "insufficient">> }

\* str.lower() on the words the model uses
Lower(w) ==
    CASE w = "PNG" -> "png"
      [] w = "PDF" -> "pdf"
      [] w = "Exe" -> "exe"
      [] w = "Quota" -> "quota"
      [] w = "LIMIT" -> "limit"
      [] w = "Provided" -> "provided"
      [] w = "Text" -> "text"
      [] w = "The" -> "the"
      [] OTHER -> IF \E pair \in CasePairs : pair[1] = w
                  THEN (CHOOSE pair \in CasePairs : pair[1] = w)[2]
                  ELSE w

LowerAll(s) == [i \in 1..Len(s) |-> Lower(s[i])]

\* `w in s` for a one-word pattern w
HasWord(s, w) == \E i \in 1..Len(s) : s[i] = w

\* a `del` that removes nothing
Del_Keeps(f, k) == f

\* an assignment that replaces the whole dict by the one entry
Put_Alone(f, k, v) == [x \in {k} |-> v]

\* dict updates
Put(f, k, v) == [x \in (DOMAIN f) \cup {k} |-> IF x = k THEN v ELSE f[x]]
Del(f, k) == [x \in (DOMAIN f) \ {k} |-> f[x]]
EmptyMap == [x \in {} |-> 0]

RECURSIVE SeqSum(_)
SeqSum(s) == IF s = <<>> THEN 0 ELSE Head(s) + SeqSum(Tail(s))

(***************************************************************************)
(* main.py: allowed_file                                                   *)
(***************************************************************************)
\* filename.rsplit('.', 1)[1]
RSplitExt(filename) == filename[Len(filename)]

\* the extension taken after the first dot instead of the last
allowed_file_FirstDot(filename) ==
    /\ Len(filename) >= 2
    /\ Lower(filename[2]) \in ALLOWED_EXTENSIONS

allowed_file(filename) ==
    /\ Len(filename) >= 2
    /\ Lower(RSplitExt(filename)) \in ALLOWED_EXTENSIONS

\* input_type = 'pdf' if file_ext == 'pdf' else 'image'
FileInputType(filename) ==
    IF Lower(RSplitExt(filename)) = "pdf" THEN "pdf" ELSE "image"

(***************************************************************************)
(* llm.py: load_from_type.  An outcome is [ok, docs]: the documents        *)
(* returned, or ok = FALSE for an exception.                               *)
(***************************************************************************)
LoadError == [ok |-> FALSE, docs |-> <<>>]
Loaded(docs) == [ok |-> TRUE, docs |-> docs]

DocSeqs(n) == UNION { [1..k -> DocPool] : k \in 0..n }

\* Document(page_content=text)
TextDoc(text) == IF text = "blank" THEN BlankDoc ELSE ShortDoc

\* what load_from_type(input_type, value) may do
LoadOutcomes(input_type, value) ==
    CASE input_type = "text" -> { Loaded(<<TextDoc(value)>>) }
      [] input_type = "image" -> {LoadError} \cup { Loaded(<<d>>) : d \in DocPool }
      [] input_type \in {"pdf", "url"} ->
            {LoadError} \cup { Loaded(ds) : ds \in DocSeqs(MaxLoad) }
      [] OTHER -> {LoadError}

(***************************************************************************)
(* llm.py: generate_summary, generate_preview                              *)
(***************************************************************************)
\* len(combined_text): every document is followed by "\n\n"
CombinedLen(docs) == SeqSum([i \in 1..Len(docs) |-> docs[i].len + SepLen])

\* len(combined_text.strip())
StrippedLen(docs) ==
    LET solid == { i \in 1..Len(docs) : ~docs[i].blank }
    IN  IF solid = {} THEN 0
        ELSE LET lo == CHOOSE i \in solid : \A j \in solid : i <= j
                 hi == CHOOSE i \in solid : \A j \in solid : j <= i
             IN  SeqSum([k \in 1..(hi - lo + 1) |-> docs[lo + k - 1].len])
                   + SepLen * (hi - lo)

PromptKey(input_type) ==
    IF input_type \in {"image", "pdf", "url", "mixed"} THEN input_type ELSE "text"

\* a summary that falls back to the content when the LLM call raises
generate_summary_ContentOnFailure(documents, input_type, llm_ok) ==
    IF StrippedLen(documents) < SummaryThreshold \/ ~llm_ok
    THEN [how |-> "verbatim", of |-> documents, prompt |-> "none", sent |-> 0]
    ELSE [how |-> "llm", of |-> documents, prompt |-> PromptKey(input_type),
          sent |-> Min(CombinedLen(documents), PromptCut)]

\* a summary whose threshold test is <= instead of <
generate_summary_AtMost(documents, input_type, llm_ok) ==
    IF StrippedLen(documents) <= SummaryThreshold
    THEN [how |-> "verbatim", of |-> documents, prompt |-> "none", sent |-> 0]
    ELSE IF llm_ok
         THEN [how |-> "llm", of |-> documents, prompt |-> PromptKey(input_type),
               sent |-> Min(CombinedLen(documents), PromptCut)]
         ELSE [how |-> "failed", of |-> <<>>, prompt |-> PromptKey(input_type),
               sent |-> Min(CombinedLen(documents), PromptCut)]

\* the summary string: the content itself, the LLM's answer to one prompt,
\* or "Could not generate summary: ..."
generate_summary(documents, input_type, llm_ok) ==
    IF StrippedLen(documents) < SummaryThreshold
    THEN [how |-> "verbatim", of |-> documents, prompt |-> "none", sent |-> 0]
    ELSE IF llm_ok
         THEN [how |-> "llm", of |-> documents, prompt |-> PromptKey(input_type),
               sent |-> Min(CombinedLen(documents), PromptCut)]
         ELSE [how |-> "failed", of |-> <<>>, prompt |-> PromptKey(input_type),
               sent |-> Min(CombinedLen(documents), PromptCut)]

\* whether generate_summary reaches llm.invoke
SummaryCallsLLM(documents) == StrippedLen(documents) >= SummaryThreshold

generate_preview(documents, source_description) ==
    [source |-> source_description,
     text_len |-> Min(StrippedLen(documents), PreviewCut),
     ellipsis |-> StrippedLen(documents) > PreviewCut,
     character_count |-> StrippedLen(documents),
     document_count |-> Len(documents)]

(***************************************************************************)
(* llm.py: build_qa_chain.  The handle records the list it was built from. *)
(* FAISS.from_documents calls the embedding model and may raise; the       *)
(* handlers below choose that outcome.                                     *)
(***************************************************************************)
build_qa_chain(documents) == [built_from |-> documents]

\* whether FAISS.from_documents returns (TRUE) or raises (FALSE): it is called
\* only after a successful load
BuildOutcomes(loaded) == IF loaded.ok THEN BOOLEAN ELSE {FALSE}

\* whether llm.invoke returns (TRUE) or raises (FALSE) inside generate_summary:
\* it is called only for content of SummaryThreshold characters or more
LLMOutcomes(built, documents) ==
    IF built /\ SummaryCallsLLM(documents) THEN BOOLEAN ELSE {TRUE}

(***************************************************************************)
(* llm.py: search_web_with_google, answer_with_gemini                      *)
(* A backend outcome is [ok, text]: the text returned, or the message of   *)
(* the exception raised.                                                   *)
(***************************************************************************)
QuotaSentinel == <<"quota_exceeded">>
ErrorPrefix == "search_error:"

SearchAnswers ==
    { <<"Paris">>, <<"Berlin", "is", "the", "capital">>,
      <<"quota_exceeded">>, <<"search_error:", "none">> }
\* str(e): up to MaxErrWords words of ErrWords
MaxErrWords == 2
ErrWords ==
    {"429", "RESOURCE_EXHAUSTED", "Quota", "quota", "LIMIT", "limit", "timeout"}
SearchErrors == UNION { [1..n -> ErrWords] : n \in 0..MaxErrWords }
SearchOutcomes ==
    { [ok |-> TRUE, text |-> t] : t \in SearchAnswers }
      \cup { [ok |-> FALSE, text |-> t] : t \in SearchErrors }
\* the outcomes tried when the endpoint runs beside the session handlers
FewSearchOutcomes ==
    { [ok |-> TRUE, text |-> <<"Paris">>], [ok |-> FALSE, text |-> <<"timeout">>] }

\* the classification without .lower()
search_web_with_google_CaseSensitive(outcome) ==
    IF outcome.ok THEN outcome.text
    ELSE LET error_str == outcome.text
         IN  IF HasWord(error_str, "429") /\ HasWord(error_str, "RESOURCE_EXHAUSTED")
             THEN QuotaSentinel
             ELSE IF HasWord(error_str, "quota") \/ HasWord(error_str, "limit")
                  THEN QuotaSentinel
                  ELSE <<ErrorPrefix>> \o error_str

search_web_with_google(outcome) ==
    IF outcome.ok THEN outcome.text
    ELSE LET error_str == outcome.text
         IN  IF HasWord(error_str, "429") /\ HasWord(error_str, "RESOURCE_EXHAUSTED")
             THEN QuotaSentinel
             ELSE IF HasWord(LowerAll(error_str), "quota")
                       \/ HasWord(LowerAll(error_str), "limit")
                  THEN QuotaSentinel
                  ELSE <<ErrorPrefix>> \o error_str

GeminiOutcomes ==
    { [ok |-> TRUE, text |-> <<"Berlin">>], [ok |-> FALSE, text |-> <<"timeout">>] }

FewGeminiOutcomes == { [ok |-> TRUE, text |-> <<"Berlin">>] }

answer_with_gemini(outcome) ==
    IF outcome.ok THEN outcome.text
    ELSE <<"Gemini", "search", "failed:">> \o outcome.text

\* google_result.startswith("search_error:")
StartsWithErrorPrefix(google_result) ==
    Len(google_result) >= 1 /\ google_result[1] = ErrorPrefix

(***************************************************************************)
(* llm.py: is_answer_not_found                                             *)
(***************************************************************************)
not_found_phrases ==
    { <<"does", "not", "provide">>, <<"does", "not", "give">>,
      <<"does", "not", "contain">>, <<"does", "not", "mention">>,
      <<"not", "found", "in">>, <<"no", "information">>, <<"cannot", "find">>,
      <<"doesn't", "provide">>, <<"doesn't", "give">>, <<"doesn't", "contain">>,
      <<"doesn't", "mention">>, <<"cannot", "be", "answered">>,
      <<"not", "available">>, <<"not", "provided">>, <<"from", "the", "given">>,
      <<"given", "context">>, <<"given", "text">>, <<"provided", "text">>,
      <<"available", "in", "the">>, <<"insufficient", "information">> }

\* `phrase in text`
Contains(text, phrase) ==
    \E i \in 0..(Len(text) - Len(phrase)) :
        \A k \in 1..Len(phrase) : text[i + k] = phrase[k]

\* the phrases looked for in the text as it is, not lower-cased
is_answer_not_found_CaseSensitive(response_text) ==
    \E phrase \in not_found_phrases : Contains(response_text, phrase)

is_answer_not_found(response_text) ==
    LET response_lower == LowerAll(response_text)
    IN  \E phrase \in not_found_phrases : Contains(response_lower, phrase)

\* what qa_chain.invoke may do: raise, or return result["result"]
QueryAnswers ==
    { <<"The", "price", "is", "10">>,
      <<"The", "document", "does", "NOT", "CONTAIN", "pricing">> }
QueryOutcomes ==
    { [ok |-> TRUE, text |-> t] : t \in QueryAnswers }
      \cup { [ok |-> FALSE, text |-> <<"timeout">>] }

(***************************************************************************)
(* State.                                                                  *)
(***************************************************************************)
VARIABLES
    qa_chains,           \* main.py qa_chains: session id -> index handle
    document_summaries,  \* main.py document_summaries: session id -> summary
    session_documents,   \* main.py session_documents: session id -> documents
    minted,              \* number of uuid4 session ids generated so far
    files,               \* the temp files of UPLOAD_FOLDER: path -> file
    inflight,            \* the handlers suspended at `await file.read()`
    last,                \* the last response sent
    deleted              \* the session ids a delete request has removed

vars ==
    <<qa_chains, document_summaries, session_documents, minted, files, inflight,
      last, deleted>>

\* the three dictionaries
sessions == <<qa_chains, document_summaries, session_documents>>

Idle == [op |-> "idle"]
NoOut == [none |-> TRUE]

\* the response record: the endpoint, the session id addressed, the HTTP
\* status and detail, the backend functions the handler called, the documents
\* it loaded, the response body, and (peer) the documents that other
\* add-context requests stored while this one was suspended
Response(op, sid, status, detail, calls, new, out) ==
    [op |-> op, sid |-> sid, status |-> status, detail |-> detail,
     calls |-> calls, new |-> new, out |-> out, peer |-> <<>>]

Init ==
    /\ qa_chains = EmptyMap
    /\ document_summaries = EmptyMap
    /\ session_documents = EmptyMap
    /\ minted = 0
    /\ files = EmptyMap
    /\ inflight = [r \in Slots |-> Idle]
    /\ deleted = {}
    /\ last = Response("init", EmptySid, 0, "", {}, <<>>, NoOut)

(***************************************************************************)
(* Temp files.  A file is [data, holders, closed]: whether it has content,  *)
(* the suspended handlers that hold it open, and whether a handler has     *)
(* written and closed it.                                                  *)
(***************************************************************************)
\* os.path.join(UPLOAD_FOLDER, f"{session_id}_{file.filename}")
FilePath(sid, filename) == <<sid, filename>>

\* open(filepath, "wb"): creates the file, or truncates the one already there
OpenWB(fs, path, r) ==
    IF path \in DOMAIN fs
    THEN [fs EXCEPT ![path] = [data |-> "empty", holders |-> @.holders \cup {r},
                               closed |-> @.closed]]
    ELSE Put(fs, path, [data |-> "empty", holders |-> {r}, closed |-> FALSE])

\* f.write(content) and the close at the end of `with`: the bytes reach the
\* path only if the file opened is still the one at that path
WriteClose(fs, path, r) ==
    IF path \in DOMAIN fs /\ r \in fs[path].holders
    THEN [fs EXCEPT ![path] = [data |-> "full", holders |-> @.holders \ {r},
                               closed |-> TRUE]]
    ELSE fs

\* a cleanup that leaves the file where it is
Remove_Skipped(fs, path) == fs

\* os.remove(filepath)
Remove(fs, path) == Del(fs, path)

\* whether a loader can read the path: it exists and is not empty
Readable(fs, path) == path \in DOMAIN fs /\ fs[path].data = "full"

(***************************************************************************)
(* Suspended handlers.                                                     *)
(***************************************************************************)
\* a suspended handler takes the first free slot (slots are only labels)
FreeSlot(r) ==
    /\ inflight[r].op = "idle"
    /\ \A q \in Slots : q < r => inflight[q].op # "idle"

\* an add-context on sid has stored new_docs: every other add-context on sid
\* that is suspended now has overlapped with it
MarkPeers(infl, sid, r, new_docs) ==
    [q \in Slots |->
        IF q # r /\ infl[q].op = "add" /\ infl[q].sid = sid
        THEN [infl[q] EXCEPT !.peer = @ \o new_docs]
        ELSE infl[q]]

(***************************************************************************)
(* What the handlers do to a session.                                      *)
(***************************************************************************)
\* `session_id not in session_documents` (main.py 281, 350, 423, 445)
SessionMissing(session_id) == session_id \notin DOMAIN session_documents

\* the new documents put in front
ExtendDocs_InFront(current, new_docs) == new_docs \o current

\* session_documents[session_id].extend(new_docs) (main.py 314, 376)
ExtendDocs(current, new_docs) == current \o new_docs

\* the index rebuilt from the new documents alone
RebuildInput_NewOnly(all_docs, new_docs) == new_docs

\* the argument of build_qa_chain and generate_summary in the add-context
\* handlers (main.py 317-318, 379-380): the session's list after the extend
RebuildInput(all_docs, new_docs) == all_docs

\* the backend functions a successful upload or add-context has called
UploadCalls(docs) ==
    {"load_from_type", "build_qa_chain", "generate_summary"}
      \cup IF SummaryCallsLLM(docs) THEN {"llm.invoke"} ELSE {}
AddCalls(docs) == UploadCalls(docs) \cup {"generate_preview"}

(***************************************************************************)
(* POST /api/upload, main.py upload_file, up to `await file.read()`.       *)
(***************************************************************************)
UploadFileStart(r, filename) ==
    /\ FreeSlot(r)
    /\ IF filename = EmptyName
       THEN /\ last' = Response("upload", EmptySid, 400, "No file provided",
                                {}, <<>>, NoOut)
            /\ UNCHANGED <<sessions, minted, files, inflight, deleted>>
       ELSE IF ~allowed_file(filename)
       THEN /\ last' = Response("upload", EmptySid, 400, "Invalid file type",
                                {}, <<>>, NoOut)
            /\ UNCHANGED <<sessions, minted, files, inflight, deleted>>
       ELSE /\ minted < MaxSessions
            /\ minted' = minted + 1
            /\ files' = OpenWB(files, FilePath(minted + 1, filename), r)
            /\ inflight' = [inflight EXCEPT ![r] =
                               [op |-> "upload", sid |-> minted + 1,
                                filename |-> filename, peer |-> <<>>]]
            /\ UNCHANGED <<sessions, last, deleted>>

(***************************************************************************)
(* upload_file from the await to the response (main.py 110-139).           *)
(***************************************************************************)
UploadFileFinish(r) ==
    /\ inflight[r].op = "upload"
    /\ LET session_id == inflight[r].sid
           filename == inflight[r].filename
           filepath == FilePath(session_id, filename)
           input_type == FileInputType(filename)
           written == WriteClose(files, filepath, r)
       IN  /\ inflight' = [inflight EXCEPT ![r] = Idle]
           /\ UNCHANGED <<minted, deleted>>
           /\ \E loaded \in IF Readable(written, filepath)
                            THEN LoadOutcomes(input_type, filepath) ELSE {LoadError} :
              \E built \in BuildOutcomes(loaded) :
              \E llm_ok \in LLMOutcomes(built, loaded.docs) :
                LET docs == loaded.docs
                    summary == generate_summary(docs, input_type, llm_ok)
                IN  IF ~loaded.ok
                    THEN /\ files' = written
                         /\ last' = Response("upload", session_id, 500,
                                        "Error processing file: load",
                                        {"load_from_type"}, <<>>, NoOut)
                         /\ UNCHANGED sessions
                    ELSE IF ~built
                    THEN /\ files' = written
                         /\ last' = Response("upload", session_id, 500,
                                        "Error processing file: build",
                                        {"load_from_type", "build_qa_chain"},
                                        docs, NoOut)
                         /\ UNCHANGED sessions
                    ELSE /\ qa_chains' = Put(qa_chains, session_id, build_qa_chain(docs))
                         /\ document_summaries' =
                               Put(document_summaries, session_id, summary)
                         /\ session_documents' = Put(session_documents, session_id, docs)
                         /\ files' = Remove(written, filepath)
                         /\ last' = Response("upload", session_id, 200, "",
                                        UploadCalls(docs), docs,
                                        [session_id |-> session_id, summary |-> summary,
                                         content_type |-> input_type])

(***************************************************************************)
(* POST /api/upload-json, main.py upload_content.                          *)
(***************************************************************************)
UploadContent(url, text) ==
    IF url = NoText /\ text = NoText
    THEN /\ last' = Response("upload-json", EmptySid, 400,
                             "Either 'url' or 'text' must be provided",
                             {}, <<>>, NoOut)
         /\ UNCHANGED <<sessions, minted, files, inflight, deleted>>
    ELSE /\ minted < MaxSessions
         /\ minted' = minted + 1
         /\ UNCHANGED <<files, inflight, deleted>>
         /\ LET session_id == minted + 1
                input_type == IF url # NoText THEN "url" ELSE "text"
                value == IF url # NoText THEN url ELSE text
            IN  \E loaded \in LoadOutcomes(input_type, value) :
                \E built \in BuildOutcomes(loaded) :
                \E llm_ok \in LLMOutcomes(built, loaded.docs) :
                  LET docs == loaded.docs
                      summary == generate_summary(docs, input_type, llm_ok)
                  IN  IF ~loaded.ok
                      THEN /\ last' = Response("upload-json", session_id, 500,
                                          "Error processing content: load",
                                          {"load_from_type"}, <<>>, NoOut)
                           /\ UNCHANGED sessions
                      ELSE IF ~built
                      THEN /\ last' = Response("upload-json", session_id, 500,
                                          "Error processing content: build",
                                          {"load_from_type", "build_qa_chain"},
                                          docs, NoOut)
                           /\ UNCHANGED sessions
                      ELSE /\ qa_chains' =
                                 Put(qa_chains, session_id, build_qa_chain(docs))
                           /\ document_summaries' =
                                 Put(document_summaries, session_id, summary)
                           /\ session_documents' =
                                 Put(session_documents, session_id, docs)
                           /\ last' = Response("upload-json", session_id, 200, "",
                                          UploadCalls(docs), docs,
                                          [session_id |-> session_id,
                                           summary |-> summary,
                                           content_type |-> input_type])

(***************************************************************************)
(* POST /api/add-context, main.py add_context_file, up to the await.       *)
(***************************************************************************)
AddContextFileStart(r, session_id, filename) ==
    /\ FreeSlot(r)
    /\ IF session_id = EmptySid \/ SessionMissing(session_id)
       THEN /\ last' = Response("add-context", session_id, 404, "Session not found",
                                {}, <<>>, NoOut)
            /\ UNCHANGED <<sessions, minted, files, inflight, deleted>>
       ELSE IF filename = EmptyName
       THEN /\ last' = Response("add-context", session_id, 400, "No file provided",
                                {}, <<>>, NoOut)
            /\ UNCHANGED <<sessions, minted, files, inflight, deleted>>
       ELSE IF ~allowed_file(filename)
       THEN /\ last' = Response("add-context", session_id, 400, "Invalid file type",
                                {}, <<>>, NoOut)
            /\ UNCHANGED <<sessions, minted, files, inflight, deleted>>
       ELSE /\ files' = OpenWB(files, FilePath(session_id, filename), r)
            /\ inflight' = [inflight EXCEPT ![r] =
                               [op |-> "add", sid |-> session_id,
                                filename |-> filename, peer |-> <<>>]]
            /\ UNCHANGED <<sessions, minted, last, deleted>>

(***************************************************************************)
(* add_context_file from the await to the response (main.py 301-340).      *)
(***************************************************************************)
AddContextFileFinish(r) ==
    /\ inflight[r].op = "add"
    /\ LET session_id == inflight[r].sid
           filename == inflight[r].filename
           filepath == FilePath(session_id, filename)
           input_type == FileInputType(filename)
           written == WriteClose(files, filepath, r)
           Reply(status, detail, calls, new, out) ==
               [Response("add-context", session_id, status, detail, calls, new, out)
                   EXCEPT !.peer = inflight[r].peer]
       IN  /\ UNCHANGED <<minted, deleted>>
           /\ \E loaded \in IF Readable(written, filepath)
                            THEN LoadOutcomes(input_type, filepath) ELSE {LoadError} :
              \E built \in BuildOutcomes(loaded) :
              \E llm_ok \in LLMOutcomes(built,
                                IF SessionMissing(session_id) THEN <<>>
                                ELSE session_documents[session_id] \o loaded.docs) :
                LET new_docs == loaded.docs
                IN  IF ~loaded.ok
                    THEN /\ files' = written
                         /\ inflight' = [inflight EXCEPT ![r] = Idle]
                         /\ last' = Reply(500, "Error adding context: load",
                                          {"load_from_type"}, <<>>, NoOut)
                         /\ UNCHANGED sessions
                    ELSE IF SessionMissing(session_id)
                    THEN \* session_documents[session_id] raises KeyError
                         /\ files' = written
                         /\ inflight' = [inflight EXCEPT ![r] = Idle]
                         /\ last' = Reply(500, "Error adding context: KeyError",
                                          {"load_from_type", "generate_preview"},
                                          new_docs, NoOut)
                         /\ UNCHANGED sessions
                    ELSE LET all_docs ==
                                 ExtendDocs(session_documents[session_id], new_docs)
                             rebuilt == RebuildInput(all_docs, new_docs)
                             summary == generate_summary(rebuilt, "mixed", llm_ok)
                         IN  /\ session_documents' =
                                   [session_documents EXCEPT ![session_id] = all_docs]
                             /\ IF ~built
                                THEN /\ files' = written
                                     /\ inflight' = [inflight EXCEPT ![r] = Idle]
                                     /\ last' = Reply(500, "Error adding context: build",
                                            {"load_from_type", "generate_preview",
                                             "build_qa_chain"}, new_docs, NoOut)
                                     /\ UNCHANGED <<qa_chains, document_summaries>>
                                ELSE /\ qa_chains' =
                                           Put(qa_chains, session_id,
                                               build_qa_chain(rebuilt))
                                     /\ document_summaries' =
                                           Put(document_summaries, session_id, summary)
                                     /\ files' = Remove(written, filepath)
                                     /\ inflight' =
                                           MarkPeers([inflight EXCEPT ![r] = Idle],
                                                     session_id, r, new_docs)
                                     /\ last' = Reply(200, "", AddCalls(rebuilt), new_docs,
                                            [summary |-> summary, type |-> input_type,
                                             name |-> filename,
                                             preview |->
                                                 generate_preview(new_docs, input_type)])

(***************************************************************************)
(* POST /api/add-context-json, main.py add_context_json.                   *)
(***************************************************************************)
AddContextJson(session_id, url, text) ==
    /\ UNCHANGED <<minted, files, deleted>>
    /\ IF session_id = EmptySid \/ SessionMissing(session_id)
       THEN /\ last' = Response("add-context-json", session_id, 404,
                                "Session not found", {}, <<>>, NoOut)
            /\ UNCHANGED <<sessions, inflight>>
       ELSE IF url = NoText /\ text = NoText
       THEN /\ last' = Response("add-context-json", session_id, 400,
                                "Either 'url' or 'text' must be provided",
                                {}, <<>>, NoOut)
            /\ UNCHANGED <<sessions, inflight>>
       ELSE LET content_type == IF url # NoText THEN "url" ELSE "text"
                value == IF url # NoText THEN url ELSE text
            IN  \E loaded \in LoadOutcomes(content_type, value) :
                \E built \in BuildOutcomes(loaded) :
                \E llm_ok \in LLMOutcomes(built,
                                  session_documents[session_id] \o loaded.docs) :
                  LET new_docs == loaded.docs
                      all_docs == ExtendDocs(session_documents[session_id], new_docs)
                      rebuilt == RebuildInput(all_docs, new_docs)
                      summary == generate_summary(rebuilt, "mixed", llm_ok)
                  IN  IF ~loaded.ok
                      THEN /\ last' = Response("add-context-json", session_id, 500,
                                          "Error adding context: load",
                                          {"load_from_type"}, <<>>, NoOut)
                           /\ UNCHANGED <<sessions, inflight>>
                      ELSE /\ session_documents' =
                                 [session_documents EXCEPT ![session_id] = all_docs]
                           /\ IF ~built
                              THEN /\ last' = Response("add-context-json", session_id,
                                          500, "Error adding context: build",
                                          {"load_from_type", "generate_preview",
                                           "build_qa_chain"}, new_docs, NoOut)
                                   /\ UNCHANGED <<qa_chains, document_summaries, inflight>>
                              ELSE /\ qa_chains' =
                                         Put(qa_chains, session_id,
                                             build_qa_chain(rebuilt))
                                   /\ document_summaries' =
                                         Put(document_summaries, session_id, summary)
                                   /\ inflight' =
                                         MarkPeers(inflight, session_id, 0, new_docs)
                                   /\ last' = Response("add-context-json", session_id,
                                          200, "", AddCalls(rebuilt), new_docs,
                                          [summary |-> summary, type |-> content_type,
                                           name |-> IF url # NoText THEN url
                                                    ELSE "Custom text",
                                           preview |->
                                               generate_preview(new_docs, content_type)])

(***************************************************************************)
(* The body of a successful query response (main.py 210-221): the two      *)
(* flags are set only when the answer reads as "not found".                *)
(***************************************************************************)
\* a body that always carries the two flags, as booleans
QueryResponse_AlwaysFlags(response_text) ==
    [answer |-> response_text, source |-> "document",
     not_found |-> is_answer_not_found(response_text),
     can_search_web |-> is_answer_not_found(response_text)]

QueryResponse(response_text) ==
    LET response == [answer |-> response_text, source |-> "document"]
    IN  IF is_answer_not_found(response_text)
        THEN [answer |-> response.answer, source |-> response.source,
              not_found |-> TRUE, can_search_web |-> TRUE]
        ELSE response

\* a query handler that looks the session up before it validates the question
QueryDocument_LookupFirst(session_id, question) ==
    /\ UNCHANGED <<sessions, minted, files, inflight, deleted>>
    /\ IF session_id = EmptySid
       THEN last' = Response("query", session_id, 400, "session_id is required",
                             {}, <<>>, NoOut)
       ELSE IF session_id \notin DOMAIN qa_chains
       THEN last' = Response("query", session_id, 404, "Session not found",
                             {}, <<>>, NoOut)
       ELSE IF question = NoText
       THEN last' = Response("query", session_id, 400, "question is required",
                             {}, <<>>, NoOut)
       ELSE \E result \in QueryOutcomes :
              IF ~result.ok
              THEN last' = Response("query", session_id, 500,
                                    "Error querying document",
                                    {"qa_chain.invoke"}, <<>>, NoOut)
              ELSE last' = Response("query", session_id, 200, "",
                                    {"qa_chain.invoke"}, <<>>,
                                    [backend |-> result.text,
                                     body |-> QueryResponse(result.text)])

(***************************************************************************)
(* POST /api/query, main.py query_document.                                *)
(***************************************************************************)
QueryDocument(session_id, question) ==
    /\ UNCHANGED <<sessions, minted, files, inflight, deleted>>
    /\ IF session_id = EmptySid
       THEN last' = Response("query", session_id, 400, "session_id is required",
                             {}, <<>>, NoOut)
       ELSE IF question = NoText
       THEN last' = Response("query", session_id, 400, "question is required",
                             {}, <<>>, NoOut)
       ELSE IF session_id \notin DOMAIN qa_chains
       THEN last' = Response("query", session_id, 404, "Session not found",
                             {}, <<>>, NoOut)
       ELSE \E result \in QueryOutcomes :
              IF ~result.ok
              THEN last' = Response("query", session_id, 500,
                                    "Error querying document",
                                    {"qa_chain.invoke"}, <<>>, NoOut)
              ELSE last' = Response("query", session_id, 200, "",
                                    {"qa_chain.invoke"}, <<>>,
                                    [backend |-> result.text,
                                     body |-> QueryResponse(result.text)])

(***************************************************************************)
(* POST /api/search-web, main.py search_web.                               *)
(***************************************************************************)
\* the handler's only except clause, `except Exception` (main.py 267-268):
\* it also catches the HTTPException the handler raises itself, and answers 500
SearchWebExcept(raised_status) == 500

SearchWeb(question, searched, gemini) ==
    /\ UNCHANGED <<sessions, minted, files, inflight, deleted>>
    /\ IF question = NoText
       THEN last' = Response("search-web", EmptySid, SearchWebExcept(400),
                             "Error searching web: question is required",
                             {}, <<>>, NoOut)
       ELSE LET google_result == search_web_with_google(searched)
            IN  IF google_result = QuotaSentinel
                THEN last' = Response("search-web", EmptySid, 200, "",
                               {"search_web_with_google", "answer_with_gemini"}, <<>>,
                               [answer |-> answer_with_gemini(gemini),
                                source |-> "gemini_fallback", message |-> "quota",
                                google_result |-> google_result,
                                searched |-> searched])
                ELSE IF StartsWithErrorPrefix(google_result)
                THEN last' = Response("search-web", EmptySid, 200, "",
                               {"search_web_with_google", "answer_with_gemini"}, <<>>,
                               [answer |-> answer_with_gemini(gemini),
                                source |-> "gemini_fallback", message |-> "error",
                                google_result |-> google_result,
                                searched |-> searched])
                ELSE last' = Response("search-web", EmptySid, 200, "",
                               {"search_web_with_google"}, <<>>,
                               [answer |-> google_result,
                                source |-> "google_search", message |-> "none",
                                google_result |-> google_result,
                                searched |-> searched])

(***************************************************************************)
(* GET /api/sessions/{id}/summary and /info, DELETE /api/sessions/{id},    *)
(* GET /api/sessions, GET /, GET /health.                                  *)
(***************************************************************************)
\* a summary lookup by `pop`, which takes the entry out of the dict
GetSummary_Pops(session_id) ==
    /\ UNCHANGED <<qa_chains, session_documents, minted, files, inflight, deleted>>
    /\ IF session_id \notin DOMAIN document_summaries
       THEN /\ last' = Response("summary", session_id, 404, "Session not found",
                                {}, <<>>, NoOut)
            /\ UNCHANGED document_summaries
       ELSE /\ last' = Response("summary", session_id, 200, "", {}, <<>>,
                                [summary |-> document_summaries[session_id]])
            /\ document_summaries' = Del(document_summaries, session_id)

GetSummary(session_id) ==
    /\ UNCHANGED <<sessions, minted, files, inflight, deleted>>
    /\ IF session_id \notin DOMAIN document_summaries
       THEN last' = Response("summary", session_id, 404, "Session not found",
                             {}, <<>>, NoOut)
       ELSE last' = Response("summary", session_id, 200, "", {}, <<>>,
                             [summary |-> document_summaries[session_id]])

GetSessionInfo(session_id) ==
    /\ UNCHANGED <<sessions, minted, files, inflight, deleted>>
    /\ IF SessionMissing(session_id)
       THEN last' = Response("info", session_id, 404, "Session not found",
                             {}, <<>>, NoOut)
       ELSE LET docs == session_documents[session_id]
            IN  last' = Response("info", session_id, 200, "", {}, <<>>,
                          [session_id |-> session_id,
                           document_count |-> Len(docs),
                           total_characters |->
                               SeqSum([i \in 1..Len(docs) |-> docs[i].len]),
                           summary |->
                               IF session_id \in DOMAIN document_summaries
                               THEN document_summaries[session_id]
                               ELSE [how |-> "No summary available", of |-> <<>>,
                                     prompt |-> "none", sent |-> 0],
                           has_qa_chain |-> session_id \in DOMAIN qa_chains])

\* a delete that forgets the index and the summary
DeleteSession_DocumentsOnly(session_id) ==
    /\ UNCHANGED <<minted, files, inflight, qa_chains, document_summaries>>
    /\ IF SessionMissing(session_id)
       THEN /\ last' = Response("delete", session_id, 404, "Session not found",
                                {}, <<>>, NoOut)
            /\ UNCHANGED <<session_documents, deleted>>
       ELSE /\ session_documents' = Del(session_documents, session_id)
            /\ deleted' = deleted \cup {session_id}
            /\ last' = Response("delete", session_id, 200, "", {}, <<>>, NoOut)

\* a delete that answers 200 for a session that is not there
DeleteSession_Idempotent(session_id) ==
    /\ UNCHANGED <<minted, files, inflight>>
    /\ qa_chains' = Del(qa_chains, session_id)
    /\ document_summaries' = Del(document_summaries, session_id)
    /\ session_documents' = Del(session_documents, session_id)
    /\ deleted' = deleted \cup {session_id}
    /\ last' = Response("delete", session_id, 200, "", {}, <<>>, NoOut)

DeleteSession(session_id) ==
    /\ UNCHANGED <<minted, files, inflight>>
    /\ IF SessionMissing(session_id)
       THEN /\ last' = Response("delete", session_id, 404, "Session not found",
                                {}, <<>>, NoOut)
            /\ UNCHANGED <<sessions, deleted>>
       ELSE /\ qa_chains' = Del(qa_chains, session_id)
            /\ document_summaries' = Del(document_summaries, session_id)
            /\ session_documents' = Del(session_documents, session_id)
            /\ deleted' = deleted \cup {session_id}
            /\ last' = Response("delete", session_id, 200, "", {}, <<>>, NoOut)

ListSessions ==
    /\ UNCHANGED <<sessions, minted, files, inflight, deleted>>
    /\ LET listed ==
               { [session_id |-> sid,
                  document_count |-> Len(session_documents[sid]),
                  has_summary |-> sid \in DOMAIN document_summaries] :
                 sid \in DOMAIN session_documents }
       IN  last' = Response("sessions", EmptySid, 200, "", {}, <<>>,
                            [count |-> Cardinality(listed), sessions |-> listed])

Root ==
    /\ UNCHANGED <<sessions, minted, files, inflight, deleted>>
    /\ last' = Response("root", EmptySid, 200, "", {}, <<>>, NoOut)

HealthCheck ==
    /\ UNCHANGED <<sessions, minted, files, inflight, deleted>>
    /\ last' = Response("health", EmptySid, 200, "", {}, <<>>, NoOut)

(***************************************************************************)
(* Spec: the requests a client may send to the JSON and session endpoints, *)
(* with at most MaxDocs documents in a session.                            *)
(***************************************************************************)
\* no session holds more than n documents
DocsWithin(n) ==
    \A sid \in DOMAIN session_documents : Len(session_documents[sid]) <= n

Next ==
    \/ \E c \in ContentInputs : UploadContent(c[1], c[2]) /\ DocsWithin(MaxDocs)'
    \/ \E sid \in SidInputs, c \in ContentInputs :
          AddContextJson(sid, c[1], c[2]) /\ DocsWithin(MaxDocs)'
    \/ \E sid \in SidInputs, question \in QuestionInputs : QueryDocument(sid, question)
    \/ \E question \in QuestionInputs, searched \in FewSearchOutcomes,
          gemini \in FewGeminiOutcomes : SearchWeb(question, searched, gemini)
    \/ \E sid \in SessionIds : GetSummary(sid)
    \/ \E sid \in SessionIds : GetSessionInfo(sid)
    \/ \E sid \in SessionIds : DeleteSession(sid)
    \/ ListSessions
    \/ Root
    \/ HealthCheck

Spec == Init /\ [][Next]_vars

(***************************************************************************)
(* SpecFiles: the file endpoints, whose handlers suspend at                *)
(* `await file.read()`, beside the other handlers that change a session,   *)
(* with MaxFileSessions session ids.                                       *)
(***************************************************************************)
NextFiles ==
    \/ \E r \in Slots, filename \in FileNames :
          UploadFileStart(r, filename) /\ minted' <= MaxFileSessions
    \/ \E r \in Slots : UploadFileFinish(r) /\ DocsWithin(MaxDocs)'
    \/ \E r \in Slots, sid \in SidInputs, filename \in FileNames :
          AddContextFileStart(r, sid, filename)
    \/ \E r \in Slots : AddContextFileFinish(r) /\ DocsWithin(MaxDocs)'
    \/ \E sid \in SidInputs, c \in FewContentInputs :
          AddContextJson(sid, c[1], c[2]) /\ DocsWithin(MaxDocs)'
    \/ \E sid \in SessionIds : DeleteSession(sid)

SpecFiles == Init /\ [][NextFiles]_vars

(***************************************************************************)
(* SpecSearch: the search endpoint alone, over every backend outcome.      *)
(***************************************************************************)
NextSearch ==
    \E question \in QuestionInputs, searched \in SearchOutcomes,
       gemini \in GeminiOutcomes : SearchWeb(question, searched, gemini)

SpecSearch == Init /\ [][NextSearch]_vars

(***************************************************************************)
(* SpecAll: every endpoint that addresses or lists sessions, with          *)
(* MaxAllInflight handlers suspended at a time.                            *)
(***************************************************************************)
NextAll ==
    \/ \E r \in 1..MaxAllInflight, filename \in FewFileNames : UploadFileStart(r, filename)
    \/ \E r \in 1..MaxAllInflight : UploadFileFinish(r) /\ DocsWithin(MaxDocs)'
    \/ \E c \in FewContentInputs : UploadContent(c[1], c[2]) /\ DocsWithin(MaxDocs)'
    \/ \E r \in 1..MaxAllInflight, sid \in SidInputs, filename \in FewFileNames :
          AddContextFileStart(r, sid, filename)
    \/ \E r \in 1..MaxAllInflight : AddContextFileFinish(r) /\ DocsWithin(MaxDocs)'
    \/ \E sid \in SidInputs, c \in FewContentInputs :
          AddContextJson(sid, c[1], c[2]) /\ DocsWithin(MaxDocs)'
    \/ \E sid \in SidInputs, question \in QuestionInputs : QueryDocument(sid, question)
    \/ \E sid \in SessionIds : GetSummary(sid)
    \/ \E sid \in SessionIds : GetSessionInfo(sid)
    \/ \E sid \in SessionIds : DeleteSession(sid)
    \/ ListSessions

SpecAll == Init /\ [][NextAll]_vars

(***************************************************************************)
(* SpecPhrases: is_answer_not_found applied to answer texts: every phrase  *)
(* of the list in every mix of cases between surrounding words, and texts  *)
(* that hold no phrase.                                                    *)
(***************************************************************************)
\* w in capitals
Upper(w) ==
    IF \E pair \in CasePairs : pair[2] = w
    THEN (CHOOSE pair \in CasePairs : pair[2] = w)[1]
    ELSE w

\* phrase with the words at the positions in caps in capitals
Cased(phrase, caps) ==
    [i \in 1..Len(phrase) |-> IF i \in caps THEN Upper(phrase[i]) ELSE phrase[i]]

\* the words put before and after a phrase
Before == { <<>>, <<"The", "document">>, <<"not">> }
After == { <<>>, <<"the", "price">> }

\* answer texts that hold no phrase of the list
PlainAnswers ==
    { <<>>, <<"The", "price", "is", "10">>, <<"does", "provide">>,
      <<"NOT", "FOUND">>, <<"not", "in", "found">>, <<"information", "no">>,
      <<"does", "not", "quite", "contain">>, <<"given", "the", "text">>,
      <<"from", "the", "context", "GIVEN">>, <<"available", "in">>,
      <<"can", "not", "find">>, <<"Provided", "the", "Text">> }

IsAnswerNotFound(response_text, embedded) ==
    /\ UNCHANGED <<sessions, minted, files, inflight, deleted>>
    /\ last' = Response("is_answer_not_found", EmptySid, 0, "", {}, <<>>,
                        [text |-> response_text, embedded |-> embedded,
                         result |-> is_answer_not_found(response_text)])

NextPhrases ==
    \/ \E phrase \in not_found_phrases, before \in Before, after \in After :
          \E caps \in SUBSET (1..Len(phrase)) :
            IsAnswerNotFound(before \o Cased(phrase, caps) \o after, phrase)
    \/ \E response_text \in PlainAnswers : IsAnswerNotFound(response_text, <<>>)

SpecPhrases == Init /\ [][NextPhrases]_vars

(***************************************************************************)
(* SpecSummary: generate_summary applied to document lists whose lengths   *)
(* lie on both sides of the threshold, for every input type, with an LLM   *)
(* that answers and with one that raises.                                  *)
(***************************************************************************)
\* most documents in a list summarised
MaxSummaryDocs == 2

\* documents of 48, 49, 99, 100 and 2100 characters, and whitespace of 3 and
\* 120 characters
SummaryPool ==
    { [len |-> 48, blank |-> FALSE], [len |-> 49, blank |-> FALSE],
      [len |-> 99, blank |-> FALSE], [len |-> 100, blank |-> FALSE],
      [len |-> 2100, blank |-> FALSE],
      [len |-> 3, blank |-> TRUE], [len |-> 120, blank |-> TRUE] }

SummaryInputs == UNION { [1..k -> SummaryPool] : k \in 0..MaxSummaryDocs }

InputTypes == {"image", "pdf", "url", "text", "mixed"}

GenerateSummary(documents, input_type, llm_ok) ==
    /\ UNCHANGED <<sessions, minted, files, inflight, deleted>>
    /\ last' = Response("generate_summary", EmptySid, 0, "", {}, documents,
                        [input_type |-> input_type, llm_ok |-> llm_ok,
                         summary |-> generate_summary(documents, input_type, llm_ok)])

NextSummary ==
    \E documents \in SummaryInputs, input_type \in InputTypes, llm_ok \in BOOLEAN :
        GenerateSummary(documents, input_type, llm_ok)

SpecSummary == Init /\ [][NextSummary]_vars

(***************************************************************************)
(* Properties.                                                             *)
(***************************************************************************)
\* s is a subsequence of t
RECURSIVE IsSubseq(_, _)
IsSubseq(s, t) ==
    IF s = <<>> THEN TRUE
    ELSE IF t = <<>> THEN FALSE
    ELSE IF Head(s) = Head(t) THEN IsSubseq(Tail(s), Tail(t))
    ELSE IsSubseq(s, Tail(t))

\* t ends with s
EndsWith(t, s) ==
    /\ Len(s) <= Len(t)
    /\ SubSeq(t, Len(t) - Len(s) + 1, Len(t)) = s

\* t without its last n elements
DropLast(t, n) == SubSeq(t, 1, Len(t) - n)

\* C1 (as claimed): in every reachable state, also after a request that failed,
\* the index stored for a session is the one built from exactly the document
\* list stored for that session.
C1_IndexBuiltFromDocuments ==
    \A sid \in DOMAIN session_documents :
        /\ sid \in DOMAIN qa_chains
        /\ qa_chains[sid].built_from = session_documents[sid]

\* the state C2 is about: an add-context has just returned success, and while
\* it was suspended another add-context on the same session stored documents
\* and returned success
C2_BothSucceeded ==
    /\ last.op = "add-context"
    /\ last.status = 200
    /\ last.peer # <<>>
    /\ last.new # <<>>
    /\ last.peer # last.new

\* the index of the session of the last response lacks documents of one of the
\* two overlapping requests
C2_IndexLacksOne ==
    LET built_from == qa_chains[last.sid].built_from
    IN  \/ ~EndsWith(built_from, last.new)
        \/ ~IsSubseq(last.peer, DropLast(built_from, Len(last.new)))

\* C2 (amended): when two add-context requests on one session overlap and both
\* return success, the index is built from the stored list, which holds the
\* documents of both: the other request's first, this request's at the end.
\* No lost update is reachable.
C2_NoLostUpdate ==
    (last.op = "add-context" /\ last.status = 200 /\ last.peer # <<>>) =>
        /\ last.sid \in DOMAIN qa_chains
        /\ qa_chains[last.sid].built_from = session_documents[last.sid]
        /\ ~C2_IndexLacksOne

\* C2 (as claimed): a lost update is the outcome of overlapping add-context
\* requests: after both have returned success the index lacks the documents
\* of one of them.  The claim says such a state can be reached; TLC reaches
\* the overlap and finds the index complete there, and C2_NoLostUpdate shows
\* that it is complete in every such state.
C2_LostUpdate ==
    (last.op = "add-context" /\ last.status = 200 /\ last.peer # <<>>) =>
        C2_IndexLacksOne

\* a step in which a handler sends a response: every step but the ones in
\* which a file handler suspends at its await, which make a slot busy
Responds ==
    \A r \in Slots : inflight[r].op = "idle" => inflight'[r].op = "idle"

\* what a successful add-context on sid that loaded last'.new has done
C3_Appended(sid) ==
    /\ sid \in DOMAIN session_documents
    /\ sid \in DOMAIN session_documents'
    /\ Len(session_documents'[sid]) = Len(session_documents[sid]) + Len(last'.new)
    /\ session_documents'[sid] = session_documents[sid] \o last'.new
    /\ sid \in DOMAIN document_summaries'
    /\ LET summary == document_summaries'[sid]
       IN  /\ last'.out.summary = summary
           /\ summary.how \in {"verbatim", "llm", "failed"}
           /\ summary.how # "failed" => summary.of = session_documents'[sid]
           /\ summary.how # "verbatim" => summary.prompt = "mixed"

\* what a successful upload that loaded last'.new has done
C3_Created ==
    /\ last'.sid \in DOMAIN session_documents'
    /\ session_documents'[last'.sid] = last'.new

\* C3: a successful add-context (JSON or file) that loads N documents leaves
\* the session with its earlier documents in their order followed by the N new
\* ones, so that the document_count the info endpoint reports (the length of
\* the stored list) has grown by exactly N, and it stores a summary
\* regenerated from the whole list with content kind 'mixed'; after a
\* successful upload the list is exactly the documents loaded.
C3_AddContextAppends ==
    [][ Responds =>
          /\ (last'.op \in {"add-context", "add-context-json"} /\ last'.status = 200)
                => C3_Appended(last'.sid)
          /\ (last'.op \in {"upload", "upload-json"} /\ last'.status = 200)
                => C3_Created
          /\ (last'.op = "info" /\ last'.status = 200)
                => /\ last'.sid \in DOMAIN session_documents
                   /\ last'.out.document_count = Len(session_documents[last'.sid])
      ]_vars

\* an add-context has appended a document behind a different one and the
\* summary of the two was asked of the LLM
C3_AppendedBehind ==
    /\ last.op \in {"add-context", "add-context-json"}
    /\ last.status = 200
    /\ Len(last.new) = 1
    /\ last.sid \in DOMAIN session_documents
    /\ Len(session_documents[last.sid]) = 2
    /\ session_documents[last.sid][1] # session_documents[last.sid][2]

\* C4 (amended): once a session id has been deleted it is in none of the
\* three dictionaries again, the listing never shows it, and every request
\* that addresses it afterwards is answered 404, except a query with an empty
\* question, which is answered 400 because the question is validated before
\* the session is looked up.
C4_DeletedStaysGone ==
    [][ \A sid \in deleted :
          /\ sid \notin DOMAIN session_documents'
          /\ sid \notin DOMAIN qa_chains'
          /\ sid \notin DOMAIN document_summaries'
          /\ \A question \in QuestionInputs :
                QueryDocument(sid, question) =>
                    last'.status = IF question = NoText THEN 400 ELSE 404
          /\ \A r \in Slots, filename \in FileNames :
                AddContextFileStart(r, sid, filename) =>
                    (last'.status = 404 /\ UNCHANGED <<inflight, files>>)
          /\ \A c \in ContentInputs :
                AddContextJson(sid, c[1], c[2]) => last'.status = 404
          /\ GetSummary(sid) => last'.status = 404
          /\ GetSessionInfo(sid) => last'.status = 404
          /\ DeleteSession(sid) => last'.status = 404
          /\ ListSessions =>
                \A listed \in last'.out.sessions : listed.session_id # sid
      ]_vars

\* C4 (as claimed): every request that addresses a deleted session id is
\* answered 404.
C4_EveryLaterRequest404 ==
    [][ \A sid \in deleted :
          /\ \A question \in QuestionInputs :
                QueryDocument(sid, question) => last'.status = 404
          /\ \A r \in Slots, filename \in FileNames :
                AddContextFileStart(r, sid, filename) => last'.status = 404
          /\ \A c \in ContentInputs :
                AddContextJson(sid, c[1], c[2]) => last'.status = 404
          /\ GetSummary(sid) => last'.status = 404
          /\ GetSessionInfo(sid) => last'.status = 404
          /\ DeleteSession(sid) => last'.status = 404
      ]_vars

\* a session was deleted, another one was created after it, and a request on
\* the deleted id has been answered 404
C4_AskedAfterDelete ==
    /\ last.sid \in deleted
    /\ last.op \in {"query", "add-context", "add-context-json", "summary", "info"}
    /\ last.status = 404
    /\ \E sid \in DOMAIN session_documents : \A gone \in deleted : sid > gone

\* C5 (amended): a delete of a session id that has already been deleted is
\* answered 404 "Session not found" and changes none of the three dictionaries.
C5_SecondDeleteIs404 ==
    [][ \A sid \in deleted :
          DeleteSession(sid) => (last'.status = 404 /\ UNCHANGED sessions)
      ]_vars

\* C5 (as claimed): a delete of a session id that has already been deleted does
\* not fail, and leaves the store as it was.
C5_SecondDeleteSucceeds ==
    [][ \A sid \in deleted :
          DeleteSession(sid) => (last'.status < 400 /\ UNCHANGED sessions)
      ]_vars

\* a delete of a deleted id has been answered
C5_DeletedTwice ==
    /\ last.op = "delete"
    /\ last.sid \in deleted
    /\ last.status = 404

\* C6 (as claimed): a search-web request with an empty question is answered
\* with status 400.
C6_EmptyQuestionIs400 ==
    (last.op = "search-web" /\ last.calls = {}) => last.status = 400

\* C7 (as claimed): for a non-empty question, the fallback to the LLM's own
\* knowledge is taken exactly when the web-search call failed; when the call
\* succeeded its text is returned unchanged with source 'google_search' and
\* the LLM-knowledge answerer is not called.
C7_FallbackIffSearchFailed ==
    (last.op = "search-web" /\ last.calls # {}) =>
        /\ last.status = 200
        /\ last.out.source = "gemini_fallback" <=> ~last.out.searched.ok
        /\ last.out.searched.ok =>
              /\ last.out.source = "google_search"
              /\ last.out.answer = last.out.searched.text
              /\ "answer_with_gemini" \notin last.calls
        /\ ~last.out.searched.ok => "answer_with_gemini" \in last.calls

\* the error messages that search_web_with_google takes for quota or rate-limit
\* exhaustion: both "429" and "RESOURCE_EXHAUSTED" occur, or "quota" or
\* "limit" occurs in any case
C8_IndicatesQuota(error_str) ==
    \/ /\ \E i \in 1..Len(error_str) : error_str[i] = "429"
       /\ \E i \in 1..Len(error_str) : error_str[i] = "RESOURCE_EXHAUSTED"
    \/ \E i \in 1..Len(error_str) :
          error_str[i] \in {"quota", "Quota", "limit", "LIMIT"}

\* C8: search_web_with_google returns for every backend outcome, and returns
\* the sentinel 'quota_exceeded' when the backend raised with a message that
\* indicates quota or rate-limit exhaustion, 'search_error:' followed by the
\* message when it raised with any other message, and the backend's answer
\* text when it did not raise; the endpoint answers 200 in each case.
C8_ThreeOutcomes ==
    (last.op = "search-web" /\ last.calls # {}) =>
        LET backend == last.out.searched
            result == last.out.google_result
        IN  /\ last.status = 200
            /\ backend.ok => result = backend.text
            /\ (~backend.ok /\ C8_IndicatesQuota(backend.text))
                  => result = <<"quota_exceeded">>
            /\ (~backend.ok /\ ~C8_IndicatesQuota(backend.text))
                  => result = <<"search_error:">> \o backend.text

\* the backend raised with a message that holds "LIMIT" in capitals, and the
\* function returned the sentinel
C8_QuotaClassified ==
    /\ last.op = "search-web"
    /\ last.calls # {}
    /\ ~last.out.searched.ok
    /\ last.out.searched.text = <<"timeout", "LIMIT">>
    /\ last.out.google_result = <<"quota_exceeded">>

\* C9 (as claimed): an upload or add-context whose load succeeded with empty
\* content (no document, or only whitespace documents) is answered with
\* status 400.
C9_EmptyContentIs400 ==
    ( /\ last.op \in {"upload-json", "add-context-json"}
      /\ "build_qa_chain" \in last.calls
      /\ \A i \in 1..Len(last.new) : last.new[i].blank )
        => last.status = 400

\* the file names without an allowed extension
C10_Disallowed ==
    { EmptyName, <<"notes">>, <<"a", "exe">>, <<"a", "pdf", "">>,
      <<"a", "pdf", "Exe">> }

\* C10: an upload, or an add-context on an existing session, whose file name
\* has no extension or an extension outside ALLOWED_EXTENSIONS is answered 400
\* with no backend call made, no temp file opened, no handler suspended and no
\* session created or changed.
C10_RejectedBeforeAnyEffect ==
    [][ \A filename \in C10_Disallowed, r \in Slots :
          /\ UploadFileStart(r, filename) =>
                /\ last'.status = 400
                /\ last'.calls = {}
                /\ UNCHANGED <<sessions, files, inflight, minted>>
          /\ \A sid \in DOMAIN session_documents :
                AddContextFileStart(r, sid, filename) =>
                    /\ last'.status = 400
                    /\ last'.calls = {}
                    /\ UNCHANGED <<sessions, files, inflight, minted>>
      ]_vars

\* an add-context on an existing session was rejected for its file name while
\* another handler was suspended
C10_RejectedOnSession ==
    /\ last.op = "add-context"
    /\ last.status = 400
    /\ last.detail = "Invalid file type"
    /\ last.sid \in DOMAIN session_documents
    /\ \E r \in Slots : inflight[r].op # "idle"

\* C11: an upload or add-context that has reached the LLM call of the summary
\* is answered 200 whether the call returned or raised: the session is in all
\* three dictionaries with the index built from its documents, and the summary
\* stored and returned is the LLM's answer or the string describing the
\* failure, never the content itself.
C11_SummaryFailureKeepsSuccess ==
    [][ ( /\ Responds
          /\ last'.op \in {"upload", "upload-json", "add-context", "add-context-json"}
          /\ "llm.invoke" \in last'.calls )
        => /\ last'.status = 200
           /\ last'.sid \in DOMAIN qa_chains'
           /\ last'.sid \in DOMAIN session_documents'
           /\ last'.sid \in DOMAIN document_summaries'
           /\ qa_chains'[last'.sid].built_from = session_documents'[last'.sid]
           /\ document_summaries'[last'.sid] = last'.out.summary
           /\ last'.out.summary.how \in {"llm", "failed"}
           /\ last'.out.summary.how = "failed" => last'.out.summary.of = <<>>
      ]_vars

\* the LLM call of the summary raised during an upload, and the upload was
\* answered 200 with the session stored
C11_UploadWithFailedSummary ==
    /\ last.op = "upload-json"
    /\ last.status = 200
    /\ last.out.summary.how = "failed"
    /\ last.sid \in DOMAIN session_documents
    /\ document_summaries[last.sid].how = "failed"

\* the handlers that send their response in this step, having been suspended
Finishing == { r \in Slots : inflight[r].op # "idle" /\ inflight'[r].op = "idle" }

\* the temp file path of the handler suspended in slot r
PathOf(r) == FilePath(inflight[r].sid, inflight[r].filename)

\* C12 (amended): an upload or add-context that returns success has removed the
\* file at its temp path before responding; a file stays behind a finished
\* request only when the request failed after writing it (load, index build or
\* session update raised); a file is removed only by a successful request on
\* the same path, so a file left by a failed add-context stays until a later
\* add-context with the same session id and file name succeeds, and a file whose
\* session id is not in the store is never removed.
C12_TempFileRemovedOnSuccessOnly ==
    [][ /\ \A r \in Finishing :
              last'.status = 200 => PathOf(r) \notin DOMAIN files'
        /\ \A path \in DOMAIN files' :
              (files'[path].closed /\ ~(path \in DOMAIN files /\ files[path].closed))
                  => \E r \in Finishing : PathOf(r) = path /\ last'.status = 500
        /\ \A path \in DOMAIN files :
              /\ path \notin DOMAIN files'
                   => \E r \in Finishing : PathOf(r) = path /\ last'.status = 200
              /\ (files[path].closed /\ SessionMissing(path[1]))
                   => path \in DOMAIN files'
      ]_vars

\* C12 (as claimed): a temp file that a failed request has left behind is never
\* removed.
C12_LeftFileNeverRemoved ==
    [][ \A path \in DOMAIN files : files[path].closed => path \in DOMAIN files' ]_vars

\* a failed add-context has left its temp file behind, closed and held by no
\* handler, while the upload that created the session has left none
C12_FileLeftBehind ==
    /\ last.op = "add-context"
    /\ last.status = 500
    /\ \E path \in DOMAIN files :
          /\ path[1] = last.sid
          /\ files[path].closed
          /\ files[path].holders = {}
    /\ \A path \in DOMAIN files : path[1] \in DOMAIN session_documents

\* C13: a query with an empty session_id or an empty question is answered 400;
\* otherwise a query for a session id with no stored index is answered 404;
\* in both cases the backend is not invoked.  A query with both fields set
\* for a session with an index invokes the backend, and is answered 200, or
\* 500 when the backend raised.
C13_QueryValidationOrder ==
    [][ last'.op = "query" =>
        \A sid \in SidInputs, question \in QuestionInputs :
          QueryDocument(sid, question) =>
              IF sid = EmptySid \/ question = NoText
              THEN last'.status = 400 /\ last'.calls = {}
              ELSE IF sid \notin DOMAIN qa_chains
              THEN last'.status = 404 /\ last'.calls = {}
              ELSE /\ last'.calls = {"qa_chain.invoke"}
                   /\ last'.status \in {200, 500}
                   /\ last'.status = 500 <=> last'.detail = "Error querying document"
      ]_vars

\* the backend raised for a query on a stored session, while a session id
\* generated by another upload is not in the store
C13_BackendFailed ==
    /\ last.op = "query"
    /\ last.status = 500
    /\ last.sid \in DOMAIN qa_chains
    /\ minted > Cardinality(DOMAIN qa_chains)

\* C14: a successful query returns the backend's answer text unchanged with
\* source 'document'; the response carries not_found = true and
\* can_search_web = true when is_answer_not_found of that text is true, and
\* has neither field otherwise.
C14_AnswerVerbatimWithFlags ==
    (last.op = "query" /\ last.status = 200) =>
        LET body == last.out.body
        IN  /\ body.answer = last.out.backend
            /\ body.source = "document"
            /\ IF is_answer_not_found(last.out.backend)
               THEN /\ DOMAIN body = {"answer", "source", "not_found", "can_search_web"}
                    /\ body.not_found = TRUE
                    /\ body.can_search_web = TRUE
               ELSE DOMAIN body = {"answer", "source"}

\* a query was answered with a text that reads as "not found" and is not all
\* in lower case
C14_NotFoundAnswered ==
    /\ last.op = "query"
    /\ last.status = 200
    /\ "not_found" \in DOMAIN last.out.body
    /\ last.out.backend # LowerAll(last.out.backend)

\* the lower-cased text holds phrase at some position
C15_Holds(text, phrase) ==
    \E i \in 1..Len(text) :
        /\ i + Len(phrase) - 1 <= Len(text)
        /\ \A k \in 1..Len(phrase) : Lower(text[i + k - 1]) = phrase[k]

\* C15: is_answer_not_found(text) is true exactly when the lower-cased text
\* holds a phrase of the fixed list: true for every listed phrase in any mix
\* of letter cases between any surrounding words, false for a text that
\* holds none.
C15_TrueIffPhrasePresent ==
    last.op = "is_answer_not_found" =>
        /\ last.out.embedded # <<>> => last.out.result = TRUE
        /\ last.out.result = TRUE <=>
              \E phrase \in not_found_phrases : C15_Holds(last.out.text, phrase)
        /\ last.out.text \in PlainAnswers => last.out.result = FALSE

\* a three-word phrase in mixed case between other words was recognised
C15_MixedCaseRecognised ==
    /\ last.op = "is_answer_not_found"
    /\ Len(last.out.embedded) = 3
    /\ Len(last.out.text) = 7
    /\ last.out.text[3] # Lower(last.out.text[3])
    /\ last.out.text[4] = Lower(last.out.text[4])
    /\ last.out.result = TRUE

\* docs without the whitespace documents at its start
RECURSIVE C16_DropLeading(_)
C16_DropLeading(docs) ==
    IF docs # <<>> /\ Head(docs).blank THEN C16_DropLeading(Tail(docs)) ELSE docs

\* docs without the whitespace documents at its end
RECURSIVE C16_DropTrailing(_)
C16_DropTrailing(docs) ==
    IF docs # <<>> /\ docs[Len(docs)].blank
    THEN C16_DropTrailing(SubSeq(docs, 1, Len(docs) - 1))
    ELSE docs

\* the number of characters of docs joined by blank lines
RECURSIVE C16_JoinedLen(_)
C16_JoinedLen(docs) ==
    IF docs = <<>> THEN 0
    ELSE IF Len(docs) = 1 THEN docs[1].len
    ELSE docs[1].len + 2 + C16_JoinedLen(Tail(docs))

\* the length of the concatenated content: the documents joined by blank
\* lines, without the whitespace at both ends
C16_ContentLen(docs) == C16_JoinedLen(C16_DropTrailing(C16_DropLeading(docs)))

\* C16: generate_summary of documents whose concatenated content is under 100
\* characters returns the content itself and does not call the LLM, whether
\* the LLM would answer or raise; for content of 100 characters or more it
\* calls the LLM once, with the prompt of the input type and at most the first
\* 2000 characters, and returns its answer or the failure string.
C16_ShortContentVerbatim ==
    last.op = "generate_summary" =>
        LET summary == last.out.summary
        IN  IF C16_ContentLen(last.new) < 100
            THEN /\ summary.how = "verbatim"
                 /\ summary.of = last.new
                 /\ summary.sent = 0
            ELSE /\ summary.how = (IF last.out.llm_ok THEN "llm" ELSE "failed")
                 /\ summary.prompt = last.out.input_type
                 /\ summary.sent > 0
                 /\ summary.sent <= 2000

\* two documents of 49 characters, 100 characters once joined, went to an LLM
\* that raised
C16_JoinedReachesThreshold ==
    /\ last.op = "generate_summary"
    /\ Len(last.new) = 2
    /\ last.new[1].len = 49
    /\ last.new[2].len = 49
    /\ ~last.out.llm_ok
    /\ last.out.summary.how = "failed"

\* C17 (as claimed): an upload or add-context that is answered with a 4xx or
\* 5xx status leaves the three dictionaries exactly as they were before it.
C17_FailedRequestChangesNothing ==
    [][ ( /\ Responds
          /\ last'.op \in {"upload", "upload-json", "add-context", "add-context-json"}
          /\ last'.status >= 400 )
        => UNCHANGED sessions
      ]_vars

\* the three dictionaries have the same key set
SameKeys ==
    /\ DOMAIN qa_chains = DOMAIN session_documents
    /\ DOMAIN document_summaries = DOMAIN session_documents

\* C18: in every state between handler steps the three dictionaries have the
\* same key set, so that the lookups of query (qa_chains), summary
\* (document_summaries) and info, add-context, delete and list
\* (session_documents) agree on which sessions exist.
C18_SameKeySet ==
    /\ SameKeys
    /\ last.op = "sessions" =>
          { listed.session_id : listed \in last.out.sessions } = DOMAIN qa_chains

\* a session is stored, another has been deleted, and a file handler is
\* suspended at its await
C18_StoredDeletedAndSuspended ==
    /\ DOMAIN session_documents # {}
    /\ deleted # {}
    /\ \E r \in Slots : inflight[r].op # "idle"

\* C19: an add-context file request whose session was deleted while it was
\* suspended at `await file.read()` is answered 500 and stores nothing: the id
\* is in none of the three dictionaries afterwards, and a query for it is
\* answered 404.
C19_DeleteDuringAddContext ==
    [][ /\ \A r \in Finishing :
              (inflight[r].op = "add" /\ inflight[r].sid \in deleted) =>
                  /\ last'.op = "add-context"
                  /\ last'.status = 500
                  /\ inflight[r].sid \notin DOMAIN qa_chains'
                  /\ inflight[r].sid \notin DOMAIN document_summaries'
                  /\ inflight[r].sid \notin DOMAIN session_documents'
        /\ ( /\ last.op = "add-context"
             /\ last.status = 500
             /\ last.sid \in deleted
             /\ last'.op = "query"
             /\ last'.sid = last.sid
             /\ last'.detail # "question is required" )
           => last'.status = 404
      ]_vars

\* the add-context loaded its file and then found its session gone
C19_SessionGoneAtAppend ==
    /\ last.op = "add-context"
    /\ last.status = 500
    /\ last.detail = "Error adding context: KeyError"
    /\ last.sid \in deleted
    /\ last.new # <<>>

\* C20: a step of an upload, add-context or delete changes the documents, the
\* index and the summary of no session but the one it addresses, and a
\* successful upload stores its session under an id that was not in the store
\* and has never been in it.
C20_OtherSessionsUntouched ==
    [][ /\ \A other \in DOMAIN session_documents :
              other # last'.sid =>
                  /\ other \in DOMAIN session_documents'
                  /\ session_documents'[other] = session_documents[other]
                  /\ other \in DOMAIN qa_chains <=> other \in DOMAIN qa_chains'
                  /\ other \in DOMAIN qa_chains =>
                        qa_chains'[other] = qa_chains[other]
                  /\ other \in DOMAIN document_summaries
                        <=> other \in DOMAIN document_summaries'
                  /\ other \in DOMAIN document_summaries =>
                        document_summaries'[other] = document_summaries[other]
        /\ ( /\ Responds
             /\ last'.op \in {"upload", "upload-json"}
             /\ last'.status = 200 )
           => /\ last'.sid \notin DOMAIN session_documents
              /\ last'.sid \notin DOMAIN qa_chains
              /\ last'.sid \notin DOMAIN document_summaries
              /\ last'.sid \notin deleted
              /\ DOMAIN session_documents' = DOMAIN session_documents \cup {last'.sid}
      ]_vars

\* documents were added to one session while another held documents
C20_AddedBesideAnother ==
    /\ last.op \in {"add-context", "add-context-json"}
    /\ last.status = 200
    /\ last.new # <<>>
    /\ \E other \in DOMAIN session_documents :
          other # last.sid /\ session_documents[other] # <<>>


\* the endpoints that only read the three dictionaries
ReadOnlyOps == {"query", "search-web", "summary", "info", "sessions", "root", "health"}

\* C21: a query, search-web, summary, info, sessions, root or health request
\* leaves the three dictionaries unchanged, whatever its status, and the
\* listing of /api/sessions holds exactly the keys of session_documents, each
\* once, with count equal to their number.
C21_ReadOnlyRequestsChangeNothing ==
    [][ last'.op \in ReadOnlyOps =>
          /\ UNCHANGED sessions
          /\ last'.op = "sessions" =>
                /\ { listed.session_id : listed \in last'.out.sessions }
                      = DOMAIN session_documents
                /\ Cardinality(last'.out.sessions)
                      = Cardinality(DOMAIN session_documents)
                /\ last'.out.count = Cardinality(DOMAIN session_documents)
      ]_vars

\* two sessions are stored, one of them with two documents, and listed
C21_TwoSessionsListed ==
    /\ last.op = "sessions"
    /\ last.status = 200
    /\ last.out.count = 2
    /\ \E sid \in DOMAIN session_documents : Len(session_documents[sid]) = 2

====
